---- MODULE Spec2Model ----
(***************************************************************************)
(* Stylii front end: the zustand session store (frontend/lib/store.ts),    *)
(* its per-style recommendation cache, the generation orchestrator of the  *)
(* results page (ResultsPage.handleStyleSelect) and the selected-design    *)
(* page (SelectedDesignPage).                                              *)
(*                                                                         *)
(* Conventions.                                                            *)
(*  - The store is one record, as in zustand; set(partial) is Merge.       *)
(*  - JS null / undefined are the strings Null / Undefined; a nullable     *)
(*    object result (getProductsFromCache) is a sequence of length 0 or 1. *)
(*  - `now` is Date.now() in milliseconds since the session started.       *)
(*  - `lastOp` is a history variable: the name of the last step taken.     *)
(***************************************************************************)
EXTENDS Integers, Sequences, FiniteSets, TLC

VARIABLES
    store,      \* the zustand store state (store.ts:44-58)
    now,        \* Date.now(), ms since session start
    lastOp,     \* history: [op, style, info] of the last step
    hist,       \* history: the style of the last handleStyleSelect call,
                \* per style the last generation stored and when, and the
                \* collaborators that failed since the user's last attempt
    route,      \* the page shown: "design", "results" or "selected"
    currentStep,\* MultiStepDesignForm's step (multi-step-design-form.tsx:24)
    param,      \* the ?style= parameter of /selected-design
    rp,         \* ResultsPage's useState values (part_000:51-52)
    runs,       \* the handleStyleSelect calls suspended at an await
    timers,     \* pending setTimeout navigations (part_000:204-206), FIFO
    sd,         \* SelectedDesignPage's useState values (not-found.tsx:65-69)
    vreqs       \* the generateCompositeImage calls suspended at an await

app == <<route, currentStep, param, rp, runs, timers, sd, vreqs>>
vars == <<store, now, lastOp, hist, route, currentStep, param, rp, runs, timers,
          sd, vreqs>>

(***************************************************************************)
(* Bounds of the model.                                                    *)
(***************************************************************************)
MaxHours == 1       \* the clock covers 0 .. MaxHours cache lifetimes (+1 s)
MaxResults == 2     \* length of the result history explored
MaxRuns == 2        \* handleStyleSelect calls that can be suspended at once
MaxTimers == 1      \* pending delayed navigations
MaxViewRequests == 1 \* generateCompositeImage calls suspended at once

(***************************************************************************)
(* Program constants.                                                      *)
(***************************************************************************)
CACHE_TTL_MS == 3600000     \* store.ts:93
DEFAULT_BUDGET == 5000      \* store.ts:47 and store.ts:103

Null == "null"
Undefined == "undefined"

\* Style ids offered by the results page (two of the six DESIGN_STYLES).
Styles == {"modern", "scandinavian"}

\* Product records as returned by the query generator; thumbnail "" = absent.
ProductA == [title |-> "sofa", thumbnail |-> "http://img/sofa.png"]
ProductB == [title |-> "lamp", thumbnail |-> ""]
ProductLists == {<<>>, <<ProductA>>}
QueryLists == {<<>>, <<"modern sofa under $1000">>}

\* Bodies of successful query-generation responses, after the `|| []` defaults
\* (part_000:187-188).
Responses ==
    { [products |-> <<ProductA>>, queries |-> <<"modern sofa under $1000">>],
      [products |-> <<ProductB>>, queries |-> <<"oak lamp">>] }

Files == {"room.jpg"}
ImageLists == {<<>>, <<"room.jpg">>}
Budgets == {500, DEFAULT_BUDGET}
Notes == {"", "no red"}
CategoryLists == {<<>>, <<"furniture">>}
ErrorMessages == {"Failed to generate design"}
\* URL.createObjectURL of the image generated for a style (part_000:162-168,
\* not-found.tsx:122-128).
CompositeUrlOf(s) == IF s = "modern" THEN "blob:modern" ELSE "blob:scandinavian"
CompositeUrls == {CompositeUrlOf(s) : s \in Styles}
ResultIds == {"r1", "r2", "r3"}

\* The instants the clock visits: the session start and, around each whole
\* cache lifetime after it, one second before, the lifetime, one second after.
Instants ==
    {0} \cup {h * CACHE_TTL_MS + o * 1000 : h \in 1..MaxHours, o \in {-1, 0, 1}}

(***************************************************************************)
(* The store.                                                              *)
(***************************************************************************)
\* store.ts:44-58, the initial state.
InitialStore ==
    [ images              |-> <<>>,
      budget              |-> DEFAULT_BUDGET,
      style               |-> "",
      notes               |-> "",
      selectedProducts    |-> <<>>,
      isGenerating        |-> FALSE,
      error               |-> Null,
      results             |-> <<>>,
      currentResultId     |-> Null,
      recommendedProducts |-> <<>>,
      amazonSearchQueries |-> <<>>,
      compositeImageUrl   |-> Undefined,
      productsCache       |-> <<>> ]

\* zustand's set(partial): the fields of `partial` replace those of the state.
Merge(s, partial) == partial @@ s

\* Mutant of CachePut: the other entries are dropped.
CachePutAlone(cache, style, entry) == [k \in {style} |-> entry]

\* { ...state.productsCache, [style]: entry }
CachePut(cache, style, entry) ==
    [k \in DOMAIN cache \cup {style} |-> IF k = style THEN entry ELSE cache[k]]

\* Mutant of StoreSetProductsCache: an existing entry is not overwritten.
StoreSetProductsCacheKeepingFirst(s, style, products, queries, t) ==
    IF style \in DOMAIN s.productsCache
    THEN s
    ELSE Merge(s, [productsCache |->
            CachePut(s.productsCache, style,
                     [products |-> products, queries |-> queries, timestamp |-> t])])

\* store.ts:77-87
StoreSetProductsCache(s, style, products, queries, t) ==
    Merge(s, [productsCache |->
        CachePut(s.productsCache, style,
                 [products |-> products, queries |-> queries, timestamp |-> t])])

\* Mutants of IsExpired: no expiry; the lifetime taken in seconds; the
\* boundary excluded.
IsExpiredNever(cached, t) == FALSE
IsExpiredInSeconds(cached, t) == t - cached.timestamp > 3600
IsExpiredAtBoundary(cached, t) == t - cached.timestamp >= CACHE_TTL_MS

\* store.ts:93
IsExpired(cached, t) == t - cached.timestamp > CACHE_TTL_MS

\* Mutant of GetProductsFromCache: the cached queries are dropped.
GetProductsFromCacheWithoutQueries(s, style, t) ==
    IF style \in DOMAIN s.productsCache /\ ~IsExpired(s.productsCache[style], t)
    THEN <<[products |-> s.productsCache[style].products, queries |-> <<>>]>>
    ELSE <<>>

\* Mutant of StoreAfterGetProductsFromCache: an expired entry is evicted by
\* the read that finds it.
StoreAfterEvictingRead(s, style, t) ==
    IF style \in DOMAIN s.productsCache /\ IsExpired(s.productsCache[style], t)
    THEN Merge(s, [productsCache |->
            [k \in DOMAIN s.productsCache \ {style} |-> s.productsCache[k]]])
    ELSE s

\* store.ts:88-99: the store after getProductsFromCache; the function reads
\* getState() and calls no set.
StoreAfterGetProductsFromCache(s, style, t) == s

\* Mutant of GetProductsFromCache: the entry is served only to a session
\* with the default budget.
GetProductsFromCacheForDefaultBudget(s, style, t) ==
    IF /\ s.budget = DEFAULT_BUDGET
       /\ style \in DOMAIN s.productsCache
       /\ ~IsExpired(s.productsCache[style], t)
    THEN <<[products |-> s.productsCache[style].products,
            queries |-> s.productsCache[style].queries]>>
    ELSE <<>>

\* store.ts:88-99; <<>> is null.
GetProductsFromCache(s, style, t) ==
    IF style \in DOMAIN s.productsCache
    THEN LET cached == s.productsCache[style]
         IN  IF ~IsExpired(cached, t)
             THEN <<[products |-> cached.products, queries |-> cached.queries]>>
             ELSE <<>>
    ELSE <<>>

\* store.ts:68-72
StoreAddResult(s, result) ==
    Merge(s, [results |-> <<result>> \o s.results, currentResultId |-> result.id])

\* Mutants of StoreReset: the cache left out; results cleared without
\* currentResultId.
StoreResetKeepingCache(s) ==
    Merge(s, [ images              |-> <<>>,
               budget              |-> DEFAULT_BUDGET,
               style               |-> "",
               notes               |-> "",
               selectedProducts    |-> <<>>,
               isGenerating        |-> FALSE,
               error               |-> Null,
               recommendedProducts |-> <<>>,
               amazonSearchQueries |-> <<>>,
               compositeImageUrl   |-> Undefined ])
StoreResetClearingResults(s) ==
    Merge(s, [ images              |-> <<>>,
               budget              |-> DEFAULT_BUDGET,
               style               |-> "",
               notes               |-> "",
               selectedProducts    |-> <<>>,
               isGenerating        |-> FALSE,
               error               |-> Null,
               results             |-> <<>>,
               recommendedProducts |-> <<>>,
               amazonSearchQueries |-> <<>>,
               compositeImageUrl   |-> Undefined,
               productsCache       |-> <<>> ])

\* store.ts:100-113
StoreReset(s) ==
    Merge(s, [ images              |-> <<>>,
               budget              |-> DEFAULT_BUDGET,
               style               |-> "",
               notes               |-> "",
               selectedProducts    |-> <<>>,
               isGenerating        |-> FALSE,
               error               |-> Null,
               recommendedProducts |-> <<>>,
               amazonSearchQueries |-> <<>>,
               compositeImageUrl   |-> Undefined,
               productsCache       |-> <<>> ])

Op(name, style) == [op |-> name, style |-> style, info |-> <<>>]
OpWith(name, style, info) == [op |-> name, style |-> style, info |-> info]

NoGeneration == [s \in Styles |-> <<>>]

\* The history after a step: a handleStyleSelect call is remembered by its
\* style, a stored generation by its response, its settings and the time, and a failed
\* request by its collaborator until the user next chooses a style or
\* presses Try Again.
HistAfter(op) ==
    IF op.op \in {"busy", "cacheHit", "started"}
    THEN [hist EXCEPT !.lastCall = op.style, !.failed = {}]
    ELSE IF op.op = "tryAgain"
    THEN [hist EXCEPT !.failed = {}]
    ELSE IF op.op = "queryFailed"
    THEN [hist EXCEPT !.failed = @ \cup {"query"}]
    ELSE IF op.op \in {"vizNoImage", "viewNoImage", "viewFailed"}
    THEN [hist EXCEPT !.failed = @ \cup {"viz"}]
    ELSE IF op.op = "committed"
    THEN [hist EXCEPT !.gen[op.style] =
            <<[products |-> op.info.products, queries |-> op.info.queries,
               at |-> now, settings |-> op.info.settings]>>]
    ELSE IF op.op = "reset"
    THEN [hist EXCEPT !.gen = NoGeneration]
    ELSE hist

\* part_000:51-52
RpInit == [isGenerating |-> FALSE, loadingStep |-> ""]

\* not-found.tsx:66-69
SdInit ==
    [isGeneratingImage |-> FALSE, rateLimitError |-> FALSE,
     hasAttemptedGeneration |-> FALSE]

NoResponse == [products |-> <<>>, queries |-> <<>>]

\* part_000:97-103, formData without its style: the inputs of the request,
\* as the page rendered them from the store (part_000:55).
FormOf(st) ==
    [budget |-> st.budget, notes |-> st.notes,
     selectedProducts |-> st.selectedProducts, images |-> st.images]

NoForm == [budget |-> 0, notes |-> "", selectedProducts |-> <<>>, images |-> <<>>]

\* The inputs of a request other than the photos.
SettingsOf(form) ==
    [budget |-> form.budget, notes |-> form.notes,
     selectedProducts |-> form.selectedProducts]

\* A handleStyleSelect call that is not running.  Of a running call: pc is
\* the await it is suspended at, style its styleId, room whether
\* imageBase64s[0] exists, resp the parsed response body, live whether the
\* ResultsPage instance that started it is still mounted, prior (history) the
\* recommendedProducts at the time of the call, form the inputs it sends.
IdleRun ==
    [pc |-> "idle", style |-> "", room |-> FALSE, resp |-> NoResponse,
     live |-> FALSE, prior |-> <<>>, form |-> NoForm]

\* A generateCompositeImage call that is not running.  Of a running call:
\* thumbs is whether productThumbUrls is non-empty.
IdleView == [pc |-> "idle", style |-> "", thumbs |-> FALSE, live |-> FALSE]

RunSlots == 1..MaxRuns
ViewSlots == 1..MaxViewRequests

Init ==
    /\ store = InitialStore
    /\ now = 0
    /\ lastOp = Op("init", "")
    /\ hist = [lastCall |-> "", gen |-> NoGeneration, failed |-> {}]
    /\ route = "design"
    /\ currentStep = 0
    /\ param = ""
    /\ rp = RpInit
    /\ runs = [i \in RunSlots |-> IdleRun]
    /\ timers = <<>>
    /\ sd = SdInit
    /\ vreqs = [i \in ViewSlots |-> IdleView]

(***************************************************************************)
(* Store operations, called directly.                                      *)
(***************************************************************************)
Tick ==
    /\ \E t \in Instants : t > now /\ now' = t
    /\ lastOp' = Op("tick", "")
    /\ UNCHANGED <<store, hist, app>>

SetImages ==
    /\ \E v \in ImageLists : store' = Merge(store, [images |-> v])
    /\ lastOp' = Op("setImages", "")
    /\ UNCHANGED <<now, hist, app>>

SetBudget ==
    /\ \E v \in Budgets : store' = Merge(store, [budget |-> v])
    /\ lastOp' = Op("setBudget", "")
    /\ UNCHANGED <<now, hist, app>>

SetStyle ==
    /\ \E v \in Styles : store' = Merge(store, [style |-> v])
    /\ lastOp' = Op("setStyle", "")
    /\ UNCHANGED <<now, hist, app>>

SetNotes ==
    /\ \E v \in Notes : store' = Merge(store, [notes |-> v])
    /\ lastOp' = Op("setNotes", "")
    /\ UNCHANGED <<now, hist, app>>

SetSelectedProducts ==
    /\ \E v \in CategoryLists : store' = Merge(store, [selectedProducts |-> v])
    /\ lastOp' = Op("setSelectedProducts", "")
    /\ UNCHANGED <<now, hist, app>>

SetIsGenerating ==
    /\ \E v \in BOOLEAN : store' = Merge(store, [isGenerating |-> v])
    /\ lastOp' = Op("setIsGenerating", "")
    /\ UNCHANGED <<now, hist, app>>

SetError ==
    /\ \E v \in ErrorMessages \cup {Null} : store' = Merge(store, [error |-> v])
    /\ lastOp' = Op("setError", "")
    /\ UNCHANGED <<now, hist, app>>

SetRecommendedProducts ==
    /\ \E v \in ProductLists : store' = Merge(store, [recommendedProducts |-> v])
    /\ lastOp' = Op("setRecommendedProducts", "")
    /\ UNCHANGED <<now, hist, app>>

SetAmazonSearchQueries ==
    /\ \E v \in QueryLists : store' = Merge(store, [amazonSearchQueries |-> v])
    /\ lastOp' = Op("setAmazonSearchQueries", "")
    /\ UNCHANGED <<now, hist, app>>

SetCompositeImageUrl ==
    /\ \E v \in CompositeUrls \cup {Undefined} :
          store' = Merge(store, [compositeImageUrl |-> v])
    /\ lastOp' = Op("setCompositeImageUrl", "")
    /\ UNCHANGED <<now, hist, app>>

SetProductsCache ==
    /\ \E s \in Styles, r \in Responses :
          /\ store' = StoreSetProductsCache(store, s, r.products, r.queries, now)
          /\ lastOp' = OpWith("setProductsCache", s,
                [products |-> r.products, queries |-> r.queries,
                 replaced |-> IF s \notin DOMAIN store.productsCache THEN "none"
                              ELSE IF IsExpired(store.productsCache[s], now)
                              THEN "expired" ELSE "fresh"])
    /\ UNCHANGED <<now, hist, app>>

\* store.ts:88-99, getProductsFromCache(style), as a step of its own.
GetProductsFromCacheCall ==
    /\ \E s \in Styles :
          /\ store' = StoreAfterGetProductsFromCache(store, s, now)
          /\ lastOp' = OpWith("getProductsFromCache", s,
                [result |-> GetProductsFromCache(store, s, now)])
    /\ UNCHANGED <<now, hist, app>>

ResultIdsOf(results) == {results[i].id : i \in DOMAIN results}

\* addResult with a DesignResult as client.ts generateDesign builds it: a fresh
\* random id, the style and budget of the request.
AddResult ==
    /\ Len(store.results) < MaxResults
    /\ \E id \in ResultIds \ ResultIdsOf(store.results), s \in Styles :
          store' = StoreAddResult(store,
                      [id |-> id, style |-> s, budget |-> store.budget])
    /\ lastOp' = Op("addResult", "")
    /\ UNCHANGED <<now, hist, app>>

\* Array.prototype.slice(0, n)
SliceFirst(seq, n) == SubSeq(seq, 1, IF Len(seq) < n THEN Len(seq) ELSE n)

\* HistoryStrip: a click on one of the first five results.
SetCurrentResult ==
    /\ \E i \in DOMAIN SliceFirst(store.results, 5) :
          store' = Merge(store, [currentResultId |-> store.results[i].id])
    /\ lastOp' = Op("setCurrentResult", "")
    /\ UNCHANGED <<now, hist, app>>

Reset ==
    /\ store' = StoreReset(store)
    /\ lastOp' = Op("reset", "")
    /\ hist' = HistAfter(Op("reset", ""))
    /\ UNCHANGED <<now, app>>

\* The cache and the clock alone.
NextCache ==
    \/ Tick
    \/ SetProductsCache
    \/ Reset

SpecCache == Init /\ [][NextCache]_vars

\* The cache with its reads: the clock, setProductsCache,
\* getProductsFromCache, and reset.
NextRead ==
    \/ Tick
    \/ SetProductsCache
    \/ GetProductsFromCacheCall
    \/ Reset

SpecRead == Init /\ [][NextRead]_vars

\* The form, flag and cache operations of the store, and reset.
NextStore ==
    \/ SetImages
    \/ SetBudget
    \/ SetStyle
    \/ SetNotes
    \/ SetSelectedProducts
    \/ SetIsGenerating
    \/ SetError
    \/ SetRecommendedProducts
    \/ SetAmazonSearchQueries
    \/ SetCompositeImageUrl
    \/ SetProductsCache
    \/ Reset

SpecStore == Init /\ [][NextStore]_vars

\* The result history: addResult, setCurrentResult, and reset.
NextHistory ==
    \/ SetStyle
    \/ SetBudget
    \/ AddResult
    \/ SetCurrentResult
    \/ Reset

SpecHistory == Init /\ [][NextHistory]_vars

(***************************************************************************)
(* React: the render and the effects that follow a handler.                *)
(*                                                                         *)
(* A handler (an event callback or the continuation of an await) runs to   *)
(* its next await; React then renders and runs the effects whose           *)
(* dependencies changed, and the renders these cause, before the next      *)
(* event is handled.  Each action below is one handler followed by that    *)
(* render.                                                                 *)
(***************************************************************************)
\* part_000:141-143 and not-found.tsx:104-106: some product has a thumbnail.
HasThumbs(products) == \E i \in DOMAIN products : products[i].thumbnail # ""

LowestOf(S) == CHOOSE i \in S : \A j \in S : i <= j
FreeRunSlots(rs) == {i \in RunSlots : rs[i].pc = "idle"}
FreeViewSlots(vr) == {i \in ViewSlots : vr[i].pc = "idle"}
Unmounted(calls) == [i \in DOMAIN calls |-> [calls[i] EXCEPT !.live = FALSE]]

\* not-found.tsx:85, the condition of generateCompositeImage.
CanGenerateImage(st, sdr) ==
    /\ st.compositeImageUrl = Undefined
    /\ Len(st.images) > 0
    /\ Len(st.recommendedProducts) > 0
    /\ ~sdr.isGeneratingImage
    /\ ~sdr.hasAttemptedGeneration
    /\ ~sdr.rateLimitError

\* not-found.tsx:152, the dependencies of the generation effect.
EffectDeps(st, pm, sdr) ==
    <<st.compositeImageUrl, st.images, st.recommendedProducts, pm,
      sdr.hasAttemptedGeneration, sdr.rateLimitError>>

\* Mutant of ResetEffect: a change of style keeps hasAttemptedGeneration.
ResetEffectKeepingAttempt(sdr) == [sdr EXCEPT !.rateLimitError = FALSE]

\* not-found.tsx:76-80, the local part of the reset effect.
ResetEffect(sdr) ==
    [sdr EXCEPT !.hasAttemptedGeneration = FALSE, !.rateLimitError = FALSE]

\* not-found.tsx:86-88, generateCompositeImage up to its first await.
StartImageGeneration(sdr) ==
    [sdr EXCEPT !.isGeneratingImage = TRUE, !.hasAttemptedGeneration = TRUE]

\* The state of the selected-design page after the render that follows a
\* handler which left the store st, the route rt, the style parameter pm, the
\* page's local state sdr and its suspended calls vr (not-found.tsx:71-152).
\* Off the page there is no local state and no call's instance is mounted.
Rendered(st, rt, pm, sdr, vr) ==
    IF rt # "selected"
    THEN [store |-> st, sd |-> SdInit, vreqs |-> Unmounted(vr), ok |-> TRUE]
    ELSE
      LET mounting == route # "selected"
          styleChanged == mounting \/ pm # param
          sd0 == IF mounting THEN SdInit ELSE sdr
          sd1 == IF styleChanged THEN ResetEffect(sd0) ELSE sd0
          st1 == IF styleChanged
                 THEN Merge(st, [compositeImageUrl |-> Undefined])
                 ELSE st
          triggered == mounting \/ EffectDeps(st1, pm, sd1) # EffectDeps(store, param, sd)
          starts == triggered /\ CanGenerateImage(st1, sd1)
          free == FreeViewSlots(vr)
      IN  IF starts /\ free # {}
          THEN [store |-> st1,
                sd |-> StartImageGeneration(sd1),
                vreqs |-> [vr EXCEPT ![LowestOf(free)] =
                             [pc |-> "reading", style |-> pm,
                              thumbs |-> HasThumbs(st1.recommendedProducts),
                              live |-> TRUE]],
                ok |-> TRUE]
          ELSE [store |-> st1, sd |-> sd1, vreqs |-> vr, ok |-> ~starts]

\* The next state: the handler's results, rendered.  Leaving /results unmounts
\* ResultsPage: its local state is gone and its calls' setters reach nothing.
\* Leaving /design unmounts the wizard: it starts again at its first step.
Finish(st, rt, pm, rpN, runsN, timersN, sdr, vr, op) ==
    LET r == Rendered(st, rt, IF rt = "selected" THEN pm ELSE "", sdr, vr)
    IN  /\ r.ok
        /\ store' = r.store
        /\ sd' = r.sd
        /\ vreqs' = r.vreqs
        /\ route' = rt
        /\ currentStep' = IF rt = "design" /\ route = "design" THEN currentStep ELSE 0
        /\ param' = IF rt = "selected" THEN pm ELSE ""
        /\ rp' = IF rt = "results" THEN rpN ELSE RpInit
        /\ runs' = IF rt = "results" THEN runsN ELSE Unmounted(runsN)
        /\ timers' = timersN
        /\ lastOp' = op
        /\ hist' = HistAfter(op)
        /\ UNCHANGED now

(***************************************************************************)
(* Navigation and the upload control.                                      *)
(***************************************************************************)
\* multi-step-design-form.tsx:84-94, Choose Design: router.push("/results");
\* also a history navigation to /results.  The steps of the wizard are not
\* followed here, so the form is as the session left it.
OpenResults ==
    /\ route = "design"
    /\ Finish(store, "results", "", RpInit, runs, timers, sd, vreqs,
              Op("openResults", ""))

\* top-bar.tsx:19 (Link to /design) and part_000:222 (router.back()).
GoToDesign ==
    /\ route # "design"
    /\ Finish(store, "design", "", rp, runs, timers, sd, vreqs,
              Op("goToDesign", ""))

\* not-found.tsx:196, Back to Results: router.back().
BackToResults ==
    /\ route = "selected"
    /\ Finish(store, "results", "", RpInit, runs, timers, sd, vreqs,
              Op("backToResults", ""))

\* upload-dropzone.tsx:13-31, onDrop; the dropzone is disabled with a photo.
OnDrop ==
    /\ route = "design"
    /\ ~(Len(store.images) >= 1)
    /\ \E accepted \in {<<f>> : f \in Files} :
          Finish(Merge(store, [images |-> SliceFirst(accepted, 1)]),
                 route, param, rp, runs, timers, sd, vreqs, Op("onDrop", ""))

\* upload-dropzone.tsx:33-36, removeImage(index).
RemoveImage ==
    /\ route = "design"
    /\ \E index \in DOMAIN store.images :
          Finish(Merge(store, [images |->
                    SubSeq(store.images, 1, index - 1)
                    \o SubSeq(store.images, index + 1, Len(store.images))]),
                 route, param, rp, runs, timers, sd, vreqs,
                 Op("removeImage", ""))

(***************************************************************************)
(* ResultsPage.handleStyleSelect (part_000:68-211).                        *)
(***************************************************************************)
\* Mutant of AlreadyGenerating: the component's own flag alone.
AlreadyGeneratingLocalOnly(isGenerating, globalGenerating) == isGenerating

\* Mutant of AlreadyGenerating: no guard.
AlreadyGeneratingNever(isGenerating, globalGenerating) == FALSE

\* part_000:70
AlreadyGenerating(isGenerating, globalGenerating) ==
    isGenerating \/ globalGenerating

\* The local setters of a call reach the page only while its instance is
\* mounted.
SetLoadingStep(run, text) == IF run.live THEN [rp EXCEPT !.loadingStep = text] ELSE rp

\* Mutant of HandleStyleSelect: a cache hit stamps the entry anew.
HandleStyleSelectRefreshingEntry(s) ==
    /\ route = "results"
    /\ ~rp.isGenerating
    /\ LET cached == GetProductsFromCache(store, s, now)
           free == FreeRunSlots(runs)
       IN  IF AlreadyGenerating(rp.isGenerating, store.isGenerating)
           THEN Finish(store, route, param, rp, runs, timers, sd, vreqs,
                       OpWith("busy", s, [previousCall |-> hist.lastCall]))
           ELSE IF cached # <<>>
           THEN Finish(StoreSetProductsCache(
                          Merge(store,
                             [recommendedProducts |-> cached[1].products,
                              amazonSearchQueries |-> cached[1].queries]),
                          s, cached[1].products, cached[1].queries, now),
                       "selected", s, rp, runs, timers, sd, vreqs,
                       OpWith("cacheHit", s, [previousCall |-> hist.lastCall]))
           ELSE /\ free # {}
                /\ Finish(Merge(store, [isGenerating |-> TRUE]),
                          route, param,
                          [isGenerating |-> TRUE,
                           loadingStep |-> "Generating your personalized design..."],
                          [runs EXCEPT ![LowestOf(free)] =
                              [pc |-> "encoding", style |-> s,
                               room |-> Len(store.images) > 0,
                               resp |-> NoResponse, live |-> TRUE,
                               prior |-> store.recommendedProducts,
                               form |-> FormOf(store)]],
                          timers, sd, vreqs, OpWith("started", s, [previousCall |-> hist.lastCall]))

\* part_000:68-88: the click on "Choose This Design" of style s, up to the
\* first await.  The button is disabled while the page's isGenerating is set.
HandleStyleSelect(s) ==
    /\ route = "results"
    /\ ~rp.isGenerating
    /\ LET cached == GetProductsFromCache(store, s, now)
           free == FreeRunSlots(runs)
       IN  IF AlreadyGenerating(rp.isGenerating, store.isGenerating)
           THEN Finish(store, route, param, rp, runs, timers, sd, vreqs,
                       OpWith("busy", s, [previousCall |-> hist.lastCall]))
           ELSE IF cached # <<>>
           THEN Finish(Merge(store,
                          [recommendedProducts |-> cached[1].products,
                           amazonSearchQueries |-> cached[1].queries]),
                       "selected", s, rp, runs, timers, sd, vreqs,
                       OpWith("cacheHit", s, [previousCall |-> hist.lastCall]))
           ELSE /\ free # {}
                /\ Finish(Merge(store, [isGenerating |-> TRUE]),
                          route, param,
                          [isGenerating |-> TRUE,
                           loadingStep |-> "Generating your personalized design..."],
                          [runs EXCEPT ![LowestOf(free)] =
                              [pc |-> "encoding", style |-> s,
                               room |-> Len(store.images) > 0,
                               resp |-> NoResponse, live |-> TRUE,
                               prior |-> store.recommendedProducts,
                               form |-> FormOf(store)]],
                          timers, sd, vreqs, OpWith("started", s, [previousCall |-> hist.lastCall]))

\* Mutant of Failed: the delayed navigation is not scheduled.
FailedWithoutNavigation(i, opname) ==
    Finish(Merge(store, [isGenerating |-> FALSE]), route, param,
           IF runs[i].live
           THEN [isGenerating |-> FALSE,
                 loadingStep |-> "Error occurred. Please try again."]
           ELSE rp,
           [runs EXCEPT ![i] = IdleRun], timers, sd, vreqs,
           OpWith(opname, runs[i].style, [prior |-> runs[i].prior]))

\* Mutant of Failed: the finally block does not clear the flags.
FailedWithoutFinally(i, opname) ==
    /\ Len(timers) < MaxTimers
    /\ Finish(store, route, param,
              IF runs[i].live
              THEN [rp EXCEPT !.loadingStep = "Error occurred. Please try again."]
              ELSE rp,
              [runs EXCEPT ![i] = IdleRun],
              Append(timers, runs[i].style), sd, vreqs,
              OpWith(opname, runs[i].style, [prior |-> runs[i].prior]))

\* part_000:200-210, catch and finally: the error text, the delayed
\* navigation, both flags cleared.
Failed(i, opname) ==
    /\ Len(timers) < MaxTimers
    /\ Finish(Merge(store, [isGenerating |-> FALSE]), route, param,
              IF runs[i].live
              THEN [isGenerating |-> FALSE,
                    loadingStep |-> "Error occurred. Please try again."]
              ELSE rp,
              [runs EXCEPT ![i] = IdleRun],
              Append(timers, runs[i].style), sd, vreqs,
              OpWith(opname, runs[i].style, [prior |-> runs[i].prior]))

\* part_000:92-107: the images are encoded; the query request is sent.
EncodeDone(i) ==
    /\ runs[i].pc = "encoding"
    /\ Finish(store, route, param,
              SetLoadingStep(runs[i], "Creating search queries with AI..."),
              [runs EXCEPT ![i].pc = "query"], timers, sd, vreqs,
              Op("queryRequested", runs[i].style))

\* part_000:59-66, 92-94: a FileReader error rejects the encoding.
EncodeFail(i) ==
    /\ runs[i].pc = "encoding"
    /\ runs[i].room
    /\ Failed(i, "encodeFailed")

\* part_000:118-128: the query response is ok and parsed.
QueryOk(i) ==
    /\ runs[i].pc = "query"
    /\ \E r \in Responses :
          Finish(store, route, param,
                 SetLoadingStep(runs[i], "Processing product recommendations..."),
                 [runs EXCEPT ![i].pc = "processing", ![i].resp = r],
                 timers, sd, vreqs, Op("queryOk", runs[i].style))

\* Mutant of QueryFail: a failed query is swallowed and the visualization
\* request is sent all the same.
QueryFailThenVisualize(i) ==
    /\ runs[i].pc = "query"
    /\ Finish(store, route, param,
              SetLoadingStep(runs[i], "Compositing products into your room (AI)..."),
              [runs EXCEPT ![i].pc = "viz"], timers, sd, vreqs,
              Op("vizRequested", runs[i].style))

\* Mutant of QueryFail: a failed query counts as an empty result, which is
\* stored and cached.
QueryFailStoredAsEmpty(i) ==
    /\ runs[i].pc = "query"
    /\ Len(timers) < MaxTimers
    /\ LET st1 == Merge(store, [amazonSearchQueries |-> <<>>])
           st2 == StoreSetProductsCache(st1, runs[i].style, <<>>, <<>>, now)
           st3 == Merge(st2, [isGenerating |-> FALSE])
       IN  Finish(st3, route, param,
                  IF runs[i].live
                  THEN [isGenerating |-> FALSE,
                        loadingStep |-> "Error occurred. Please try again."]
                  ELSE rp,
                  [runs EXCEPT ![i] = IdleRun],
                  Append(timers, runs[i].style), sd, vreqs,
                  OpWith("queryFailed", runs[i].style, [prior |-> runs[i].prior]))

\* part_000:110-122: fetch rejects, the status is not ok, or the body is not
\* JSON; all throw inside the try.
QueryFail(i) ==
    /\ runs[i].pc = "query"
    /\ Failed(i, "queryFailed")

\* part_000:128-158, 176-184: after the 1 s pause the visualization request
\* is sent, or skipped without a room image or thumbnails.
ProcessingDone(i) ==
    /\ runs[i].pc = "processing"
    /\ IF runs[i].room /\ HasThumbs(runs[i].resp.products)
       THEN Finish(store, route, param,
                   SetLoadingStep(runs[i], "Compositing products into your room (AI)..."),
                   [runs EXCEPT ![i].pc = "viz"], timers, sd, vreqs,
                   Op("vizRequested", runs[i].style))
       ELSE Finish(store, route, param,
                   SetLoadingStep(runs[i], "Finalizing your design..."),
                   [runs EXCEPT ![i].pc = "finalizing"], timers, sd, vreqs,
                   Op("vizSkipped", runs[i].style))

\* part_000:160-171, 183-184: the visualization response carries an image.
VizOk(i) ==
    /\ runs[i].pc = "viz"
    /\ Finish(Merge(store, [compositeImageUrl |-> CompositeUrlOf(runs[i].style)]),
              route, param,
              SetLoadingStep(runs[i], "Finalizing your design..."),
              [runs EXCEPT ![i].pc = "finalizing"], timers, sd, vreqs,
              Op("vizOk", runs[i].style))

\* Mutant of VizNoImage: a failed visualization fails the attempt.
VizNoImageFatal(i) ==
    /\ runs[i].pc = "viz"
    /\ Failed(i, "vizFailed")

\* part_000:160-184: the response has no generated_image, or an error status,
\* or the request throws; logged only.
VizNoImage(i) ==
    /\ runs[i].pc = "viz"
    /\ Finish(store, route, param,
              SetLoadingStep(runs[i], "Finalizing your design..."),
              [runs EXCEPT ![i].pc = "finalizing"], timers, sd, vreqs,
              Op("vizNoImage", runs[i].style))

\* part_000:184-198, 207-210: after the 0.5 s pause the results are stored
\* and cached, the page navigates, and both flags are cleared.
Commit(i) ==
    /\ runs[i].pc = "finalizing"
    /\ LET products == runs[i].resp.products
           queries == runs[i].resp.queries
           st1 == Merge(store, [recommendedProducts |-> products])
           st2 == Merge(st1, [amazonSearchQueries |-> queries])
           st3 == StoreSetProductsCache(st2, runs[i].style, products, queries, now)
           st4 == Merge(st3, [isGenerating |-> FALSE])
       IN  Finish(st4, "selected", runs[i].style,
                  IF runs[i].live THEN [rp EXCEPT !.isGenerating = FALSE] ELSE rp,
                  [runs EXCEPT ![i] = IdleRun], timers, sd, vreqs,
                  OpWith("committed", runs[i].style,
                         [products |-> products, queries |-> queries,
                          settings |-> SettingsOf(runs[i].form),
                          composite |-> store.compositeImageUrl]))

\* Mutant of TimerFire: the delayed navigation is dropped when a generation
\* is in progress.
TimerFireUnlessGenerating ==
    /\ timers # <<>>
    /\ IF store.isGenerating
       THEN Finish(store, route, param, rp, runs, Tail(timers), sd, vreqs,
                   Op("timerFired", Head(timers)))
       ELSE Finish(store, "selected", Head(timers), rp, runs, Tail(timers), sd,
                   vreqs, Op("timerFired", Head(timers)))

\* part_000:204-206: the delayed navigation of a failed call.
TimerFire ==
    /\ timers # <<>>
    /\ Finish(store, "selected", Head(timers), rp, runs, Tail(timers), sd, vreqs,
              Op("timerFired", Head(timers)))

(***************************************************************************)
(* SelectedDesignPage.generateCompositeImage (not-found.tsx:84-149).       *)
(***************************************************************************)
\* Bodies of failed visualization responses.
ErrorTexts == {"429 RESOURCE_EXHAUSTED: quota exceeded", "internal error"}
ErrorStatuses == {429, 500}

\* errorText.includes("429")
Includes429(errorText) == errorText = "429 RESOURCE_EXHAUSTED: quota exceeded"

\* Mutant of IsRateLimited: the status of a rate-limited response itself.
IsRateLimitedByStatus(status, errorText) == status = 429

\* not-found.tsx:135
IsRateLimited(status, errorText) == status = 500 /\ Includes429(errorText)

\* not-found.tsx:145-147, finally: setIsGeneratingImage(false), which reaches
\* the page only while the call's instance is mounted.
ViewFinally(j, sdr) ==
    IF vreqs[j].live THEN [sdr EXCEPT !.isGeneratingImage = FALSE] ELSE sdr

\* not-found.tsx:91-117: the room image is read; the request is sent if some
\* product has a thumbnail, else the call ends.
ReaderDone(j) ==
    /\ vreqs[j].pc = "reading"
    /\ IF vreqs[j].thumbs
       THEN Finish(store, route, param, rp, runs, timers, sd,
                   [vreqs EXCEPT ![j].pc = "fetch"],
                   Op("viewRequested", vreqs[j].style))
       ELSE Finish(store, route, param, rp, runs, timers, ViewFinally(j, sd),
                   [vreqs EXCEPT ![j] = IdleView],
                   Op("viewNoThumbs", vreqs[j].style))

\* not-found.tsx:119-129: the response carries an image.
ViewVizOk(j) ==
    /\ vreqs[j].pc = "fetch"
    /\ Finish(Merge(store, [compositeImageUrl |-> CompositeUrlOf(vreqs[j].style)]),
              route, param, rp, runs, timers, ViewFinally(j, sd),
              [vreqs EXCEPT ![j] = IdleView], Op("viewOk", vreqs[j].style))

\* not-found.tsx:119-121, 143-147: no generated_image, or the request throws.
ViewVizNoImage(j) ==
    /\ vreqs[j].pc = "fetch"
    /\ Finish(store, route, param, rp, runs, timers, ViewFinally(j, sd),
              [vreqs EXCEPT ![j] = IdleView], Op("viewNoImage", vreqs[j].style))

\* not-found.tsx:130-141: an error status; the rate-limit signature sets
\* rateLimitError.
ViewVizFail(j) ==
    /\ vreqs[j].pc = "fetch"
    /\ \E status \in ErrorStatuses, errorText \in ErrorTexts :
          LET limited == IsRateLimited(status, errorText)
              sd1 == IF limited /\ vreqs[j].live
                     THEN [sd EXCEPT !.rateLimitError = TRUE,
                                     !.hasAttemptedGeneration = TRUE]
                     ELSE sd
          IN  Finish(store, route, param, rp, runs, timers, ViewFinally(j, sd1),
                     [vreqs EXCEPT ![j] = IdleView],
                     OpWith("viewFailed", vreqs[j].style,
                            [status |-> status, errorText |-> errorText,
                             live |-> vreqs[j].live]))

\* not-found.tsx:218-236: Try Again, shown while rateLimitError is set and no
\* image is being generated.
TryAgain ==
    /\ route = "selected"
    /\ ~sd.isGeneratingImage
    /\ sd.rateLimitError
    /\ Finish(store, route, param, rp, runs, timers,
              [sd EXCEPT !.rateLimitError = FALSE,
                         !.hasAttemptedGeneration = FALSE],
              vreqs, Op("tryAgain", param))

(***************************************************************************)
(* The application: the pages and their suspended calls.  The clock stands *)
(* still, so no cache entry expires, and a photo once dropped is kept.     *)
(***************************************************************************)
Next ==
    \/ OpenResults
    \/ GoToDesign
    \/ BackToResults
    \/ OnDrop
    \/ \E s \in Styles : HandleStyleSelect(s)
    \/ \E i \in RunSlots : EncodeDone(i)
    \/ \E i \in RunSlots : EncodeFail(i)
    \/ \E i \in RunSlots : QueryOk(i)
    \/ \E i \in RunSlots : QueryFail(i)
    \/ \E i \in RunSlots : ProcessingDone(i)
    \/ \E i \in RunSlots : VizOk(i)
    \/ \E i \in RunSlots : VizNoImage(i)
    \/ \E i \in RunSlots : Commit(i)
    \/ TimerFire
    \/ \E j \in ViewSlots : ReaderDone(j)
    \/ \E j \in ViewSlots : ViewVizOk(j)
    \/ \E j \in ViewSlots : ViewVizNoImage(j)
    \/ \E j \in ViewSlots : ViewVizFail(j)
    \/ TryAgain

Spec == Init /\ [][Next]_vars

\* The upload control on /design.
NextUpload == OnDrop \/ RemoveImage \/ OpenResults \/ GoToDesign

SpecUpload == Init /\ [][NextUpload]_vars

\* The orchestrator and the clock, in a session without a photo: the
\* visualization step is skipped (part_000:149, 176-178) and the
\* selected-design page generates nothing (not-found.tsx:85).
NextTimed ==
    \/ Tick
    \/ OpenResults
    \/ GoToDesign
    \/ BackToResults
    \/ \E s \in Styles : HandleStyleSelect(s)
    \/ \E i \in RunSlots : EncodeDone(i)
    \/ \E i \in RunSlots : QueryOk(i)
    \/ \E i \in RunSlots : QueryFail(i)
    \/ \E i \in RunSlots : ProcessingDone(i)
    \/ \E i \in RunSlots : Commit(i)
    \/ TimerFire

SpecTimed == Init /\ [][NextTimed]_vars

(***************************************************************************)
(* Properties of the orchestrator and of the selected-design page.         *)
(***************************************************************************)
ActiveRuns == {i \in RunSlots : runs[i].pc # "idle"}
OutstandingQueries == {i \in RunSlots : runs[i].pc = "query"}

\* C1: at no time are two handleStyleSelect runs in flight, and at no time
\* are two query-generation requests outstanding; a click while a generation
\* is in progress starts nothing.
C1_AtMostOneRunInFlight ==
    /\ Cardinality(ActiveRuns) <= 1
    /\ Cardinality(OutstandingQueries) <= 1
    /\ lastOp.op = "busy" => ActiveRuns # {}

\* C1 witness: a click was turned away while the query request of the run in
\* flight was outstanding.
C1_Witness ==
    /\ lastOp.op = "busy"
    /\ OutstandingQueries # {}

CallOps == {"busy", "cacheHit", "started"}

\* C2 as stated: a handleStyleSelect call for the style of the call before it
\* issues no query-generation request.
C2_Original ==
    [][(lastOp'.op \in CallOps /\ hist.lastCall = lastOp'.style)
          => lastOp'.op # "started" /\ runs' = runs]_vars

\* C2 amended: a handleStyleSelect call for the style of the call before it,
\* made no later than 3,600,000 ms after a generation for that style was
\* stored, issues no query-generation request; unless a generation is in
\* progress, when the call is ignored, it is served from the cache with that
\* generation.
C2_SecondCallWithinTheHourIsServedFromCache ==
    [][\A s \in Styles :
          (/\ lastOp'.op \in CallOps
           /\ lastOp'.style = s
           /\ hist.lastCall = s
           /\ hist.gen[s] # <<>>
           /\ now - hist.gen[s][1].at <= CACHE_TTL_MS)
          => /\ lastOp'.op # "started"
             /\ runs' = runs
             /\ ~store.isGenerating =>
                   /\ lastOp'.op = "cacheHit"
                   /\ store'.recommendedProducts = hist.gen[s][1].products
                   /\ store'.amazonSearchQueries = hist.gen[s][1].queries]_vars

\* C2 witness: the second call in a row for a style was served from the cache
\* at the end of the hour after its generation.
C2_Witness ==
    /\ lastOp.op = "cacheHit"
    /\ lastOp.info.previousCall = lastOp.style
    /\ hist.gen[lastOp.style] # <<>>
    /\ now = hist.gen[lastOp.style][1].at + CACHE_TTL_MS

\* C3 as stated: when the query-generation call of handleStyleSelect fails,
\* recommendedProducts is as it was before the attempt and error is a
\* non-empty message.
C3_QueryFailureKeepsProductsAndSetsError ==
    lastOp.op = "queryFailed" =>
        /\ store.recommendedProducts = lastOp.info.prior
        /\ store.error # Null
        /\ store.error # ""

\* C5 as stated: once rateLimitError is true on the selected-design page, only
\* Try Again clears it, and no visualization attempt starts before that.
StartsAttempt ==
    \E j \in ViewSlots : vreqs[j].pc = "idle" /\ vreqs'[j].pc # "idle"

C7_GenerationIsStoredAndCachedForTheHour ==
    /\ lastOp.op = "committed" =>
          /\ store.recommendedProducts = lastOp.info.products
          /\ store.amazonSearchQueries = lastOp.info.queries
    /\ \A s \in Styles :
          (hist.gen[s] # <<>> /\ now - hist.gen[s][1].at <= CACHE_TTL_MS)
          => GetProductsFromCache(store, s, now) =
                <<[products |-> hist.gen[s][1].products,
                   queries |-> hist.gen[s][1].queries]>>

\* C7 witness: 3599 s after a generation that stored a product for a style
\* the cache is read for.
C7_Witness ==
    \E s \in Styles :
        /\ hist.gen[s] # <<>>
        /\ hist.gen[s][1].products # <<>>
        /\ store.recommendedProducts = hist.gen[s][1].products
        /\ now = hist.gen[s][1].at + 3599 * 1000

(***************************************************************************)
(* Properties of the cache (SpecCache).                                    *)
(***************************************************************************)
CachedPair(e) == <<[products |-> e.products, queries |-> e.queries]>>

\* C4: a cache entry written at time t is returned by getProductsFromCache on
\* a read at t + 3599 s and is a miss (null) on a read at t + 3601 s.
C4_ServedAt3599sMissAt3601s ==
    \A s \in DOMAIN store.productsCache :
        LET e == store.productsCache[s]
        IN  /\ now = e.timestamp + 3599 * 1000
                => GetProductsFromCache(store, s, now) = CachedPair(e)
            /\ now = e.timestamp + 3601 * 1000
                => GetProductsFromCache(store, s, now) = <<>>

\* C4 witness: the clock stands 3601 s after the write of a non-empty entry.
C4_Witness ==
    /\ lastOp.op = "tick"
    /\ \E s \in DOMAIN store.productsCache :
          /\ now = store.productsCache[s].timestamp + 3601 * 1000
          /\ store.productsCache[s].products # <<>>

\* C8 as stated: getProductsFromCache(style) returns the stored pair iff an
\* entry exists and now - timestamp < 3,600,000 ms, so that a read at exactly
\* timestamp + 3,600,000 ms is a miss.
C8_Original ==
    \A s \in Styles :
        LET got == GetProductsFromCache(store, s, now)
        IN  IF /\ s \in DOMAIN store.productsCache
               /\ now - store.productsCache[s].timestamp < CACHE_TTL_MS
            THEN got = CachedPair(store.productsCache[s])
            ELSE got = <<>>

\* C8 amended: getProductsFromCache(style) returns the stored pair iff an
\* entry exists and now - timestamp <= 3,600,000 ms; a read at exactly
\* timestamp + 3,600,000 ms is still a hit, and the first miss is one
\* millisecond later.
C8_ServedUpToAndIncludingTheHour ==
    \A s \in Styles :
        LET got == GetProductsFromCache(store, s, now)
        IN  IF /\ s \in DOMAIN store.productsCache
               /\ now - store.productsCache[s].timestamp <= CACHE_TTL_MS
            THEN got = CachedPair(store.productsCache[s])
            ELSE got = <<>>

\* C8 witness: a read exactly one lifetime after the write.
C8_Witness ==
    \E s \in DOMAIN store.productsCache :
        /\ now = store.productsCache[s].timestamp + CACHE_TTL_MS
        /\ store.productsCache[s].products # <<>>

(***************************************************************************)
(* Properties of reset and of the result history.                          *)
(***************************************************************************)
\* C6: reset() leaves images empty, budget equal to 5000, selectedProducts
\* empty and productsCache without an entry for any style.
C6_ResetClearsFormAndCache ==
    lastOp.op = "reset" =>
        /\ store.images = <<>>
        /\ store.budget = 5000
        /\ store.selectedProducts = <<>>
        /\ \A s \in Styles : s \notin DOMAIN store.productsCache

\* C6 witness: reset has just run.
C6_Witness == lastOp.op = "reset" /\ store.budget = 5000

\* C9 as stated: after reset() the whole store state, results and
\* currentResultId included, equals the state at session start.
C9_ResetRestoresEveryField ==
    lastOp.op = "reset" => store = InitialStore

AdmittedCall(s) ==
    /\ lastOp'.op \in CallOps
    /\ lastOp'.style = s
    /\ ~rp.isGenerating
    /\ ~store.isGenerating

\* The cache holds an entry for s that is no older than the lifetime.
FreshEntry(s) ==
    /\ s \in DOMAIN store.productsCache
    /\ now - store.productsCache[s].timestamp <= CACHE_TTL_MS

\* C11: a handleStyleSelect call that finds a fresh cache entry for its style
\* sets recommendedProducts and amazonSearchQueries to the entry's products
\* and queries, starts no run (so no request to either service), leaves
\* isGenerating false in the store and on the page, and navigates to the
\* selected-design page of the style in the same step.
C11_CacheHitAdoptsEntryAndNavigates ==
    [][\A s \in Styles :
          (AdmittedCall(s) /\ FreshEntry(s))
          => /\ store'.recommendedProducts = store.productsCache[s].products
             /\ store'.amazonSearchQueries = store.productsCache[s].queries
             /\ runs' = runs
             /\ ~store'.isGenerating
             /\ ~rp'.isGenerating
             /\ timers' = timers
             /\ store'.productsCache = store.productsCache
             /\ route' = "selected"
             /\ param' = s]_vars

\* C11 witness: a cache hit for one style has replaced the products shown
\* for the other.
C11_Witness ==
    /\ lastOp.op = "cacheHit"
    /\ route = "selected"
    /\ param = lastOp.style
    /\ lastOp.style \in DOMAIN store.productsCache
    /\ store.recommendedProducts = store.productsCache[lastOp.style].products
    /\ \E s \in DOMAIN store.productsCache :
          store.productsCache[s].products # store.recommendedProducts

\* The orchestrator in a session without a photo, with the store's error
\* written from outside the results page: setError(message), as the catch of
\* DesignForm.handleSubmit calls it (design-form.tsx:46-48).
NextErrors ==
    \/ SetError
    \/ OpenResults
    \/ GoToDesign
    \/ BackToResults
    \/ \E s \in Styles : HandleStyleSelect(s)
    \/ \E i \in RunSlots : EncodeDone(i)
    \/ \E i \in RunSlots : QueryOk(i)
    \/ \E i \in RunSlots : QueryFail(i)
    \/ \E i \in RunSlots : ProcessingDone(i)
    \/ \E i \in RunSlots : Commit(i)
    \/ TimerFire

SpecErrors == Init /\ [][NextErrors]_vars

C13_VisualizationFailureIsNotFatal ==
    [][\A i \in RunSlots :
          /\ (runs[i].pc = "viz" /\ runs'[i].pc # "viz")
             => /\ runs'[i].pc = "finalizing"
                /\ runs'[i].resp = runs[i].resp
                /\ runs'[i].style = runs[i].style
                /\ store'.isGenerating
                /\ timers' = timers
          /\ (runs[i].pc = "finalizing" /\ runs'[i].pc # "finalizing")
             => /\ store'.recommendedProducts = runs[i].resp.products
                /\ store'.amazonSearchQueries = runs[i].resp.queries
                /\ runs[i].style \in DOMAIN store'.productsCache
                /\ store'.productsCache[runs[i].style] =
                      [products |-> runs[i].resp.products,
                       queries |-> runs[i].resp.queries,
                       timestamp |-> now]
                /\ route' = "selected"
                /\ param' = runs[i].style
                /\ ~store'.isGenerating
                /\ timers' = timers]_vars

\* C13 witness: the visualization request of a run has failed and the run is
\* at its last step, holding the products of its query response.
C13_Witness ==
    /\ lastOp.op = "vizNoImage"
    /\ store.isGenerating
    /\ \E i \in RunSlots :
          /\ runs[i].pc = "finalizing"
          /\ runs[i].resp.products # <<>>

(***************************************************************************)
(* Progress of handleStyleSelect.  Every request eventually gets its       *)
(* response or fails, every pause ends, and the delayed navigation of a    *)
(* failed call fires (part_000:204-206; the timer is never cancelled).     *)
(* Nothing is assumed of the user.  The session has no photo.              *)
(***************************************************************************)
NextLive ==
    \/ OpenResults
    \/ GoToDesign
    \/ BackToResults
    \/ \E s \in Styles : HandleStyleSelect(s)
    \/ \E i \in RunSlots : EncodeDone(i)
    \/ \E i \in RunSlots : QueryOk(i)
    \/ \E i \in RunSlots : QueryFail(i)
    \/ \E i \in RunSlots : ProcessingDone(i)
    \/ \E i \in RunSlots : Commit(i)
    \/ TimerFire

\* The next step of a call in flight.  At most one call is in flight at a
\* time, so fairness to RunStep is fairness to each call.
RunStep ==
    \E i \in RunSlots :
        \/ EncodeDone(i)
        \/ QueryOk(i)
        \/ QueryFail(i)
        \/ ProcessingDone(i)
        \/ Commit(i)

Fairness == WF_vars(TimerFire) /\ WF_vars(RunStep)

SpecLive == Init /\ [][NextLive]_vars /\ Fairness

\* C14: when the query generation of a handleStyleSelect call fails,
\* isGenerating is false and the delayed navigation is pending; the
\* navigation to the selected-design page of the call's style then happens
\* without any user action.
C14_FailureStillNavigates ==
    /\ [](lastOp.op = "queryFailed" =>
            /\ ~store.isGenerating
            /\ \E k \in DOMAIN timers : timers[k] = lastOp.style)
    /\ \A s \in Styles :
          (lastOp.op = "queryFailed" /\ lastOp.style = s)
          ~> (lastOp.op = "timerFired" /\ route = "selected" /\ param = s)

\* C14 witness: the delayed navigation of a failed call has fired while the
\* user was back on the form.
C14_Witness ==
    /\ lastOp.op = "timerFired"
    /\ route = "selected"
    /\ param = lastOp.style
    /\ store.recommendedProducts = <<>>

\* C15: a handleStyleSelect call made while a generation is in progress
\* changes no field of the store, starts no run, schedules nothing, and
\* leaves the page and its local state as they are.
C15_RejectedCallIsANoOp ==
    [][(lastOp'.op \in CallOps /\ (rp.isGenerating \/ store.isGenerating))
          => /\ store' = store
             /\ runs' = runs
             /\ timers' = timers
             /\ vreqs' = vreqs
             /\ rp' = rp
             /\ route' = route
             /\ param' = param]_vars

\* C15 witness: a call for one style was turned away while the run of the
\* other style, holding a cache entry of its own, was in flight.
C15_Witness ==
    /\ lastOp.op = "busy"
    /\ route = "results"
    /\ \E i \in RunSlots : runs[i].pc # "idle" /\ runs[i].style # lastOp.style
    /\ lastOp.style \in DOMAIN store.productsCache

(***************************************************************************)
(* MultiStepDesignForm, the wizard on /design                              *)
(* (multi-step-design-form.tsx:23-294).                                    *)
(***************************************************************************)
LastStep == 3

\* Texts of the number input of BudgetStep; "" is the emptied field.
BudgetTexts == {"", "0", "-100", "250", "7500"}

\* Number(e.target.value)
NumberOf(text) ==
    CASE text = "" -> 0
      [] text = "0" -> 0
      [] text = "-100" -> 0 - 100
      [] text = "250" -> 250
      [] text = "7500" -> 7500

\* Positions of the slider (min 500, max 20000, step 100).
SliderValues == {500, 5000, 20000}

\* Two of the six PRODUCT_TYPES.
ProductTypes == {"furniture", "lighting"}

\* Mutant of CanProceed: every step lets the user on.
CanProceedAlways(step, st) == TRUE

\* multi-step-design-form.tsx:57-70
CanProceed(step, st) ==
    CASE step = 0 -> st.budget > 0
      [] step = 1 -> Len(st.images) >= 1
      [] step = 2 -> Len(st.selectedProducts) > 0
      [] step = 3 -> TRUE
      [] OTHER -> FALSE

\* multi-step-design-form.tsx:174-179, the number input of BudgetStep.
BudgetInput ==
    /\ route = "design"
    /\ currentStep = 0
    /\ \E text \in BudgetTexts :
          store' = Merge(store, [budget |-> NumberOf(text)])
    /\ lastOp' = Op("budgetInput", "")
    /\ UNCHANGED <<now, hist, app>>

\* multi-step-design-form.tsx:181-188, the slider of BudgetStep.
BudgetSlider ==
    /\ route = "design"
    /\ currentStep = 0
    /\ \E value \in SliderValues :
          store' = Merge(store, [budget |-> value])
    /\ lastOp' = Op("budgetSlider", "")
    /\ UNCHANGED <<now, hist, app>>

\* multi-step-design-form.tsx:206-209: the dropzone is shown at step 1.
PhotoStepDrop == currentStep = 1 /\ OnDrop
PhotoStepRemove == currentStep = 1 /\ RemoveImage

Includes(seq, x) == \E i \in DOMAIN seq : seq[i] = x
Without(seq, x) == SelectSeq(seq, LAMBDA y : y # x)

\* multi-step-design-form.tsx:226-232, toggleProduct(productId).
ToggleProduct ==
    /\ route = "design"
    /\ currentStep = 2
    /\ \E productId \in ProductTypes :
          store' = Merge(store, [selectedProducts |->
                        IF Includes(store.selectedProducts, productId)
                        THEN Without(store.selectedProducts, productId)
                        ELSE Append(store.selectedProducts, productId)])
    /\ lastOp' = Op("toggleProduct", "")
    /\ UNCHANGED <<now, hist, app>>

\* multi-step-design-form.tsx:275-278, the textarea of NotesStep.
NotesInput ==
    /\ route = "design"
    /\ currentStep = 3
    /\ \E text \in Notes : store' = Merge(store, [notes |-> text])
    /\ lastOp' = Op("notesInput", "")
    /\ UNCHANGED <<now, hist, app>>

\* multi-step-design-form.tsx:72-76, 154-162: Next, shown before the last
\* step and disabled unless canProceed().
HandleNext ==
    /\ route = "design"
    /\ currentStep # LastStep
    /\ CanProceed(currentStep, store)
    /\ currentStep' = IF currentStep < LastStep THEN currentStep + 1 ELSE currentStep
    /\ lastOp' = Op("next", "")
    /\ UNCHANGED <<store, now, hist, route, param, rp, runs, timers, sd, vreqs>>

\* multi-step-design-form.tsx:78-82, 135-143: Previous, disabled at step 0.
HandlePrevious ==
    /\ route = "design"
    /\ currentStep # 0
    /\ currentStep' = IF currentStep > 0 THEN currentStep - 1 ELSE currentStep
    /\ lastOp' = Op("previous", "")
    /\ UNCHANGED <<store, now, hist, route, param, rp, runs, timers, sd, vreqs>>

\* The Choose Design button is shown at the last step and enabled when
\* canProceed() (multi-step-design-form.tsx:145-153).
SubmitEnabled(step, st) == step = LastStep /\ CanProceed(step, st)

\* multi-step-design-form.tsx:84-94, handleSubmit: router.push("/results").
HandleSubmit ==
    /\ route = "design"
    /\ SubmitEnabled(currentStep, store)
    /\ Finish(store, "results", "", RpInit, runs, timers, sd, vreqs,
              Op("submit", ""))

NextWizard ==
    \/ BudgetInput
    \/ BudgetSlider
    \/ PhotoStepDrop
    \/ PhotoStepRemove
    \/ ToggleProduct
    \/ NotesInput
    \/ HandleNext
    \/ HandlePrevious
    \/ HandleSubmit
    \/ GoToDesign

SpecWizard == Init /\ [][NextWizard]_vars

\* C16: whenever Choose Design is enabled, budget > 0, at least one photo is
\* present and selectedProducts is non-empty; and whether it is enabled does
\* not depend on the notes.
C16_SubmitEnabledOnlyWhenReady ==
    /\ (route = "design" /\ SubmitEnabled(currentStep, store))
       => /\ store.budget > 0
          /\ Len(store.images) >= 1
          /\ Len(store.selectedProducts) > 0
    /\ \A text \in Notes :
          SubmitEnabled(currentStep, Merge(store, [notes |-> text]))
             = SubmitEnabled(currentStep, store)

\* C16 witness: Choose Design is enabled with the notes left empty, after the
\* user went back and forth.
C16_Witness ==
    /\ route = "design"
    /\ SubmitEnabled(currentStep, store)
    /\ lastOp.op = "next"
    /\ store.notes = ""
    /\ store.budget = 250

(***************************************************************************)
(* Properties of setProductsCache and of the budget.                       *)
(***************************************************************************)
\* C17: setProductsCache(style, products, queries) makes the entry of the
\* style the given products and queries with the current time, whether the
\* style had no entry, a fresh one or an expired one; every other entry and
\* every other field of the store stay as they were; the cache holds one
\* entry per style at most.
C17_PutReplacesOnlyTheStylesEntry ==
    [][lastOp'.op = "setProductsCache" =>
          LET s == lastOp'.style
              old == store.productsCache
              new == store'.productsCache
          IN  /\ DOMAIN new = DOMAIN old \cup {s}
              /\ DOMAIN new \subseteq Styles
              /\ new[s] = [products |-> lastOp'.info.products,
                           queries |-> lastOp'.info.queries,
                           timestamp |-> now]
              /\ \A o \in DOMAIN old \ {s} : new[o] = old[o]
              /\ [store' EXCEPT !.productsCache = old] = store]_vars

\* C17 witness: an expired entry has been replaced while the other style's
\* entry, written at the start, stayed.
C17_Witness ==
    /\ lastOp.op = "setProductsCache"
    /\ lastOp.info.replaced = "expired"
    /\ store.productsCache[lastOp.style].timestamp = now
    /\ \E o \in DOMAIN store.productsCache :
          o # lastOp.style /\ store.productsCache[o].timestamp = 0

\* C18 as stated: in every reachable state the budget is positive and at
\* least 500, whatever the user enters in the number input or sets with the
\* slider.
C18_BudgetAtLeast500 ==
    /\ store.budget > 0
    /\ store.budget >= 500


(***************************************************************************)
(* The isGenerating flag over the life of a handleStyleSelect call.        *)
(***************************************************************************)

\* C19: isGenerating is true only while a handleStyleSelect call is in
\* flight; the step that ends a call, by commit or by failure, leaves
\* isGenerating false; and, every request eventually returning or failing,
\* every call in flight ends with isGenerating false.
C19_GeneratingOnlyWhileInFlightAndCleared ==
    /\ [](store.isGenerating => ActiveRuns # {})
    /\ [][\A i \in RunSlots :
             (runs[i].pc # "idle" /\ runs'[i].pc = "idle")
                => (store.isGenerating /\ ~store'.isGenerating)]_vars
    /\ \A i \in RunSlots :
          (runs[i].pc # "idle" /\ store.isGenerating)
          ~> (runs[i].pc = "idle" /\ ~store.isGenerating)

\* C19 witness: a call has failed after an earlier one committed, and the
\* flag is clear.
C19_Witness ==
    /\ lastOp.op = "queryFailed"
    /\ ~store.isGenerating
    /\ ActiveRuns = {}
    /\ \E s \in Styles : hist.gen[s] # <<>>


(***************************************************************************)
(* Order of the two requests of a handleStyleSelect call.                  *)
(***************************************************************************)

\* C20: no query request is outstanding while a visualization request of
\* handleStyleSelect is; a call reaches its pause after the query only from
\* an outstanding query whose response was received; and it sends the
\* visualization request only after that pause, with the response it
\* received.
C20_QueryThenVisualizationInSequence ==
    /\ [](\A i, j \in RunSlots :
             ~(runs[i].pc = "query" /\ runs[j].pc = "viz"))
    /\ [][\A i \in RunSlots :
             (runs'[i].pc = "processing" /\ runs[i].pc # "processing")
                => /\ runs[i].pc = "query"
                   /\ runs'[i].resp \in Responses]_vars
    /\ [][\A i \in RunSlots :
             (runs'[i].pc = "viz" /\ runs[i].pc # "viz")
                => /\ runs[i].pc = "processing"
                   /\ runs[i].resp \in Responses
                   /\ runs'[i].resp = runs[i].resp]_vars

\* C20 witness: the visualization request of a call has just been sent,
\* its query response in hand.
C20_Witness ==
    /\ lastOp.op = "vizRequested"
    /\ \E i \in RunSlots :
          /\ runs[i].pc = "viz"
          /\ runs[i].style = lastOp.style
          /\ HasThumbs(runs[i].resp.products)
    /\ OutstandingQueries = {}


(***************************************************************************)
(* The selected-design page and its visualization requests.                *)
(***************************************************************************)

\* C21 as stated: when a visualization request of the selected-design page
\* returns an image after the page's style has changed, the image is not
\* stored as compositeImageUrl and so is not shown for the new style.
C21_StaleVisualizationIsDropped ==
    ~ /\ lastOp.op = "viewOk"
      /\ route = "selected"
      /\ param # lastOp.style
      /\ store.compositeImageUrl = CompositeUrlOf(lastOp.style)
      /\ ~sd.isGeneratingImage
      /\ ~sd.rateLimitError


\* The steps that send a request to a collaborator.
IssuesQuery ==
    \E i \in RunSlots : runs[i].pc # "query" /\ runs'[i].pc = "query"
IssuesVisualization ==
    \/ \E i \in RunSlots : runs[i].pc # "viz" /\ runs'[i].pc = "viz"
    \/ \E j \in ViewSlots : vreqs[j].pc # "fetch" /\ vreqs'[j].pc = "fetch"

\* C22 as stated: a handleStyleSelect call sends its query request once,
\* from its start, and its visualization request once, after the query; and
\* once a query or visualization request has failed, no request is sent to
\* that collaborator before the user chooses a style again or presses Try
\* Again.
C22_NothingIsRetriedAutomatically ==
    [][/\ \A i \in RunSlots :
             /\ (runs[i].pc # "query" /\ runs'[i].pc = "query")
                   => runs[i].pc = "encoding"
             /\ (runs[i].pc # "viz" /\ runs'[i].pc = "viz")
                   => runs[i].pc = "processing"
       /\ IssuesQuery => "query" \notin hist.failed
       /\ IssuesVisualization => "viz" \notin hist.failed]_vars


(***************************************************************************)
(* Reads of the products cache.                                            *)
(***************************************************************************)

\* C23: getProductsFromCache leaves the store as it is; and an expired entry
\* stays in productsCache, unchanged, through every step except a
\* setProductsCache for its style and reset.
C23_ReadLeavesStoreAndExpiredEntriesStay ==
    [][/\ lastOp'.op = "getProductsFromCache" => store' = store
       /\ \A s \in DOMAIN store.productsCache :
             IsExpired(store.productsCache[s], now)
                => \/ /\ s \in DOMAIN store'.productsCache
                      /\ store'.productsCache[s] = store.productsCache[s]
                   \/ lastOp'.op = "setProductsCache" /\ lastOp'.style = s
                   \/ lastOp'.op = "reset"]_vars

\* C23 witness: a read has just missed on an expired entry, which is still
\* stored.
C23_Witness ==
    /\ lastOp.op = "getProductsFromCache"
    /\ lastOp.info.result = <<>>
    /\ lastOp.style \in DOMAIN store.productsCache
    /\ IsExpired(store.productsCache[lastOp.style], now)


\* C24 as stated: when a visualization request of the mounted
\* selected-design page gets an error status, rateLimitError is true after
\* the step if the body contains the rate-limit indicator, whatever the
\* status, and false if it does not.
C24_RateLimitIsClassifiedByBody ==
    [][(lastOp'.op = "viewFailed" /\ lastOp'.info.live)
          => (sd'.rateLimitError <=> Includes429(lastOp'.info.errorText))]_vars


\* C25: the step in which the query request of a handleStyleSelect call
\* fails ends the call without a visualization request, and leaves
\* productsCache, amazonSearchQueries and compositeImageUrl as they were.
C25_FailedQueryLeavesNoPartialResult ==
    [][\A i \in RunSlots :
          (runs[i].pc = "query" /\ runs'[i].pc = "idle")
             => /\ ~IssuesVisualization
                /\ \A j \in ViewSlots : vreqs'[j] = vreqs[j]
                /\ store'.productsCache = store.productsCache
                /\ store'.amazonSearchQueries = store.amazonSearchQueries
                /\ store'.compositeImageUrl = store.compositeImageUrl]_vars

\* C25 witness: a query has failed for a style that has no cache entry while
\* another style's generation, its queries and a composite image are
\* stored.
C25_Witness ==
    /\ lastOp.op = "queryFailed"
    /\ lastOp.style \notin DOMAIN store.productsCache
    /\ store.productsCache # <<>>
    /\ store.amazonSearchQueries # <<>>
    /\ store.compositeImageUrl # Undefined


(***************************************************************************)
(* The wizard and the orchestrator together: the user edits the form on    *)
(* /design between generations of one style.  Requests succeed and the     *)
(* clock stands still, so every entry is within its hour.                  *)
(***************************************************************************)
EditedStyle == "modern"

NextEdits ==
    \/ BudgetSlider
    \/ PhotoStepDrop
    \/ PhotoStepRemove
    \/ ToggleProduct
    \/ NotesInput
    \/ HandleNext
    \/ HandleSubmit
    \/ GoToDesign
    \/ BackToResults
    \/ HandleStyleSelect(EditedStyle)
    \/ \E i \in RunSlots : EncodeDone(i)
    \/ \E i \in RunSlots : QueryOk(i)
    \/ \E i \in RunSlots : ProcessingDone(i)
    \/ \E i \in RunSlots : VizOk(i)
    \/ \E i \in RunSlots : Commit(i)
    \/ \E j \in ViewSlots : ReaderDone(j)
    \/ \E j \in ViewSlots : ViewVizOk(j)

SpecEdits == Init /\ [][NextEdits]_vars

\* A handleStyleSelect call for s, made while no generation is in progress
\* and within the hour of a stored generation for s.
CallWithinTheHour(s) ==
    /\ lastOp'.op \in CallOps
    /\ lastOp'.style = s
    /\ ~(rp.isGenerating \/ store.isGenerating)
    /\ hist.gen[s] # <<>>
    /\ now - hist.gen[s][1].at <= CACHE_TTL_MS

\* What such a call does whatever the form holds: no run starts, no query
\* request is sent, and the stored generation's products and queries are
\* adopted.
ServedFromGeneration(s) ==
    /\ ~IssuesQuery
    /\ \A i \in RunSlots : runs[i].pc = "idle" => runs'[i].pc = "idle"
    /\ store'.recommendedProducts = hist.gen[s][1].products
    /\ store'.amazonSearchQueries = hist.gen[s][1].queries
    /\ route' = "selected" /\ param' = s

C27_DelayedNavigationIsNeverCancelled ==
    [][timers' # timers =>
          \/ /\ \E s \in Styles : timers' = Append(timers, s)
             /\ ~store'.isGenerating
          \/ /\ timers # <<>>
             /\ timers' = Tail(timers)
             /\ route' = "selected"
             /\ param' = Head(timers)]_vars

\* C27 witness: the navigation of a failed call has fired while a call for
\* another style, started during the delay, is in flight.
C27_Witness ==
    /\ lastOp.op = "timerFired"
    /\ route = "selected"
    /\ param = lastOp.style
    /\ store.isGenerating
    /\ \E i \in RunSlots :
          /\ runs[i].pc \in {"encoding", "query", "processing", "viz", "finalizing"}
          /\ runs[i].style # lastOp.style


(***************************************************************************)
(* Entering the selected-design page.                                      *)
(***************************************************************************)
\* The page mounts, or its style changes while it is mounted.
EntersSelectedDesign ==
    route' = "selected" /\ (route # "selected" \/ param' # param)

\* C28 as stated: entering the page clears compositeImageUrl and, with a
\* photo and a recommended product, starts a generateCompositeImage call
\* that sends a visualization request; no call starts at any other step.
C28_Original ==
    [][/\ EntersSelectedDesign =>
             /\ store'.compositeImageUrl = Undefined
             /\ (Len(store'.images) > 0 /\ Len(store'.recommendedProducts) > 0)
                   => \E j \in ViewSlots :
                         /\ vreqs[j].pc = "idle"
                         /\ vreqs'[j].pc # "idle"
                         /\ vreqs'[j].thumbs
       /\ StartsAttempt => EntersSelectedDesign]_vars

\* C28 amended: entering the page clears compositeImageUrl, also over an
\* image the orchestrator has just stored; with a photo and a recommended
\* product a generateCompositeImage call starts, unless one of the mounted
\* page is still running; the call sends its request only if some product
\* has a thumbnail; and a call starts only with hasAttemptedGeneration
\* false, which it sets and which only an entry or Try Again clears.
C28_EntryClearsImageAndGeneratesOnce ==
    [][/\ EntersSelectedDesign =>
             /\ store'.compositeImageUrl = Undefined
             /\ (/\ Len(store'.images) > 0
                 /\ Len(store'.recommendedProducts) > 0
                 /\ (route # "selected" \/ ~sd.isGeneratingImage))
                   => StartsAttempt /\ sd'.isGeneratingImage
       /\ StartsAttempt =>
             /\ sd'.hasAttemptedGeneration
             /\ \/ EntersSelectedDesign
                \/ lastOp'.op = "tryAgain"
                \/ ~sd.hasAttemptedGeneration
       /\ (sd.hasAttemptedGeneration /\ ~sd'.hasAttemptedGeneration)
             => \/ EntersSelectedDesign
                \/ lastOp'.op = "tryAgain"
                \/ route' # "selected"
       /\ \A j \in ViewSlots :
             (vreqs[j].pc # "fetch" /\ vreqs'[j].pc = "fetch")
                => /\ vreqs[j].pc = "reading"
                   /\ vreqs[j].thumbs]_vars

\* C28 witness: the orchestrator stored a composite image for the style and
\* committed; the page it navigated to has cleared the image and started its
\* own call.
C28_Witness ==
    /\ lastOp.op = "committed"
    /\ lastOp.info.composite = CompositeUrlOf(lastOp.style)
    /\ route = "selected"
    /\ param = lastOp.style
    /\ store.compositeImageUrl = Undefined
    /\ sd.isGeneratingImage
    /\ \E j \in ViewSlots :
          /\ vreqs[j].pc = "reading"
          /\ vreqs[j].style = param
          /\ vreqs[j].live


(***************************************************************************)
(* The lifetime of a cache entry under cache hits.                         *)
(***************************************************************************)

\* C29: a handleStyleSelect call that starts no run, a cache hit among
\* them, leaves productsCache as it is; a style's entry is stamped only by
\* the commit of a generation for that style, with the time of the commit;
\* and a call for a style made more than an hour after its last generation,
\* while none is in progress, is not served from the cache but starts a run
\* for the style.
C29_HitDoesNotExtendTheHour ==
    [][/\ (lastOp'.op \in CallOps /\ \A i \in RunSlots : runs'[i].pc = runs[i].pc)
             => store'.productsCache = store.productsCache
       /\ \A s \in Styles :
             (/\ s \in DOMAIN store'.productsCache
              /\ (s \in DOMAIN store.productsCache
                     => store'.productsCache[s].timestamp
                           # store.productsCache[s].timestamp))
                => /\ \E i \in RunSlots :
                         /\ runs[i].pc = "finalizing"
                         /\ runs[i].style = s
                         /\ runs'[i].pc = "idle"
                   /\ store'.productsCache[s].timestamp = now
                   /\ hist'.gen[s] # <<>>
                   /\ hist'.gen[s][1].at = now
       /\ \A s \in Styles :
             (/\ lastOp'.op \in CallOps
              /\ lastOp'.style = s
              /\ ~(rp.isGenerating \/ store.isGenerating)
              /\ hist.gen[s] # <<>>
              /\ now - hist.gen[s][1].at > CACHE_TTL_MS)
                => /\ route' = "results"
                   /\ store'.recommendedProducts = store.recommendedProducts
                   /\ \E i \in RunSlots :
                         /\ runs[i].pc = "idle"
                         /\ runs'[i].pc = "encoding"
                         /\ runs'[i].style = s]_vars

\* C29 witness: a hit at the end of the hour of a generation has left the
\* entry's timestamp at the time of the generation.
C29_Witness ==
    /\ lastOp.op = "cacheHit"
    /\ hist.gen[lastOp.style] # <<>>
    /\ now = hist.gen[lastOp.style][1].at + CACHE_TTL_MS
    /\ store.productsCache[lastOp.style].timestamp = hist.gen[lastOp.style][1].at
    /\ store.productsCache[lastOp.style].timestamp # now
    /\ lastOp.info.previousCall = lastOp.style


(***************************************************************************)
(* DesignForm (design-form.tsx:15-160) with the upload control, as         *)
(* DesignStudio mounts them (multi-step-design-form.tsx:300-340).          *)
(***************************************************************************)
\* Mutant of DesignFormIsValid: one photo is enough.
DesignFormIsValidWithOnePhoto(st) ==
    Len(st.images) >= 1 /\ st.style # "" /\ st.budget > 0

\* design-form.tsx:26
DesignFormIsValid(st) ==
    Len(st.images) >= 3 /\ st.style # "" /\ st.budget > 0

\* design-form.tsx:28-58, handleSubmit, by the Generate button or
\* Ctrl/Cmd+Enter (62-64).  Without isValid it returns at once.  Past the
\* guard the step is given by its end: the mock generateDesign
\* (client.ts:39) resolves, addResult stores the result, finally clears
\* isGenerating.
DesignFormHandleSubmit ==
    /\ IF ~DesignFormIsValid(store)
       THEN /\ store' = store
            /\ lastOp' = Op("designFormIgnored", "")
       ELSE /\ Len(store.results) < MaxResults
            /\ \E id \in ResultIds \ ResultIdsOf(store.results) :
                  store' = Merge(StoreAddResult(Merge(store, [error |-> Null]),
                                    [id |-> id, style |-> store.style,
                                     budget |-> store.budget]),
                                 [isGenerating |-> FALSE])
            /\ lastOp' = Op("designFormSubmitted", "")
    /\ UNCHANGED <<now, hist, app>>

NextDesignForm ==
    \/ OnDrop
    \/ RemoveImage
    \/ SetStyle
    \/ SetBudget
    \/ SetNotes
    \/ DesignFormHandleSubmit

SpecDesignForm == Init /\ [][NextDesignForm]_vars

====
